---- MODULE Spec2Model ----
(***************************************************************************)
(* The two process supervisors of the repository, bot_watchdog.py          *)
(* (SlackBotWatchdog, kind "W": a main thread plus a health-check thread)  *)
(* and keep_bot_running.py (BotKeeper, kind "K": one thread), as one state *)
(* machine.  The main thread's position is mpc, the health thread's hpc.   *)
(* The environment is the worker process (it may exit at any time, it may  *)
(* or may not honour SIGTERM), the worker's log file, the passing of time  *)
(* and the SIGINT/SIGTERM signal sent to the supervisor.                   *)
(*                                                                         *)
(* Time is counted in ticks of Unit(k) seconds.  Timestamps are kept as    *)
(* ages (ticks elapsed since the timestamp was taken), saturated at one    *)
(* hour: the code only ever compares "now - r" with one hour.  A sleep     *)
(* advances the ages by the whole ticks it contains.                       *)
(***************************************************************************)
EXTENDS Integers, Sequences, FiniteSets, TLC

\* ---- bounds of the model ----
MaxRestarts == 2     \* restart_bot calls in one run of Spec
MaxStorm == 14       \* restart_bot calls in one run of StormSpec
MaxLive == 1         \* restart_bot calls in one run of LiveSpec
MaxIdle == 1         \* quiet periods (healthy worker, time passing) in one run
MaxRetry == 2         \* restart_bot calls in one run of RetrySpec
MaxShut == 1         \* restart_bot calls in one run of ShutSpec
MaxMgr == 1          \* restart_bot calls in one run of MgrSpec
MaxLock == 25        \* restart_bot calls in one run of LockSpec
MaxLineLen == 3      \* tokens of a log line
MaxTailLines == 22   \* lines in the last 5000 characters of the log

\* ---- program constants ----
W_max_restarts_per_hour == 12
K_max_restarts_per_hour == 10
W_threshold == 3
K_threshold == 2
W_rate_cooldown == 300
K_rate_cooldown == 600
W_restart_cooldown == 30
K_restart_cooldown == 60
W_check_interval == 10
K_check_interval == 30
W_startup_grace == 5
K_startup_grace == 10
W_backoff_base == 30
K_backoff_base == 60
W_backoff_cap == 5
K_backoff_cap == 4
W_backoff_max == 300
K_backoff_max == 600
HourSeconds == 3600
restart_wait == 10
ManagerKilled == -9
W_shutdown_wait == 10
K_shutdown_wait == 15
K_recent_window == 120
K_scan_lines == 20

Kinds == {"W", "K"}

max_restarts_per_hour(k) == IF k = "W" THEN W_max_restarts_per_hour ELSE K_max_restarts_per_hour
RateCooldown(k) == IF k = "W" THEN W_rate_cooldown ELSE K_rate_cooldown
restart_cooldown(k) == IF k = "W" THEN W_restart_cooldown ELSE K_restart_cooldown
check_interval(k) == IF k = "W" THEN W_check_interval ELSE K_check_interval
StartupGrace(k) == IF k = "W" THEN W_startup_grace ELSE K_startup_grace
ShutdownWait(k) == IF k = "W" THEN W_shutdown_wait ELSE K_shutdown_wait

Min(a, b) == IF a < b THEN a ELSE b

\* the failure count at which the main loop calls restart_bot
ThresholdLow(k) == 1
Threshold(k) == IF k = "W" THEN W_threshold ELSE K_threshold

\* backoff = min(MAX, BASE * (2 ** min(consecutive_failures - threshold, CAP)))
\* W reads the shared counter, which the health thread may have reset in the
\* meantime: the exponent is then negative and Python computes a fraction
\* (30 * 2 ** -3 = 3.75).  BackoffScaled is the exact value times
\* 2 ** threshold, an integer for every counter value >= 0.
Scale(k) == 2 ^ Threshold(k)
BackoffScaled(k, n) ==
    IF k = "W"
    THEN Min(W_backoff_max * Scale(k),
             W_backoff_base * (2 ^ (Min(n - W_threshold, W_backoff_cap) + W_threshold)))
    ELSE Min(K_backoff_max * Scale(k),
             K_backoff_base * (2 ^ (Min(n - K_threshold, K_backoff_cap) + K_threshold)))
\* whole seconds of the backoff (exact when n >= threshold)
BackoffUncapped(k, n) ==
    IF k = "W" THEN W_backoff_base * (2 ^ (n - W_threshold))
    ELSE K_backoff_base * (2 ^ (n - K_threshold))
Backoff(k, n) == BackoffScaled(k, n) \div Scale(k)

\* The counter is only ever compared with the threshold and used as
\* min(n - threshold, CAP): values above threshold + CAP behave alike, so the
\* model saturates the counter there.
FailCap(k) == IF k = "W" THEN W_threshold + W_backoff_cap ELSE K_threshold + K_backoff_cap
BumpStuck(k, n) == n
Bump(k, n) == Min(n + 1, FailCap(k))

\* ---- time ----
Unit(k) == RateCooldown(k)
Ticks(k, seconds) == seconds \div Unit(k)
HourTicks(k) == HourSeconds \div Unit(k)
Older(k, ages, t) == [i \in DOMAIN ages |-> Min(ages[i] + t, HourTicks(k))]

\* [r for r in restart_history if now - r < timedelta(hours=1)], now taken
\* nowAge ticks ago
PruneKeepAll(k, ages, nowAge) == ages
Prune(k, ages, nowAge) == SelectSeq(ages, LAMBDA a : a - nowAge < HourTicks(k))

\* the timestamps younger than one hour
Within(k, ages) == SelectSeq(ages, LAMBDA a : a < HourTicks(k))

\* if len(recent_restarts) >= self.max_restarts_per_hour:
RateLimitedOffByOne(k, n) == n > max_restarts_per_hour(k)
RateLimited(k, n) == n >= max_restarts_per_hour(k)

\* if self.restart_bot(): consecutive_failures = 0   (K only; W leaves the
\* counter to start_bot and the health thread)
AfterRestartKept(k, ok, n) == n
AfterRestart(k, ok, n) == IF k = "K" /\ ok THEN 0 ELSE n

VARIABLES
    kind,                 \* which supervisor runs: "W" or "K"
    prereq,               \* what main() finds: "ok", or the prerequisite that is missing
    mpc,                  \* position of the main thread
    ctx,                  \* caller of start_bot: "init" (run) or "restart" (restart_bot)
    ret,                  \* value returned by start_bot / restart_bot
    running,              \* self.running
    bot_process,          \* self.bot_process: pid of the Popen object, 0 = None
    spawned,              \* pid forked by Popen and not yet stored in self.bot_process
    alive,                \* pids of the workers alive in the process table
    launched,             \* number of workers launched so far (= last pid)
    restart_history,      \* self.restart_history, as ages
    nowAge,               \* age of the "now" taken at the start of restart_bot
    consecutive_failures, \* self.consecutive_failures (W) / local of run (K)
    hpc,                  \* position of the health-check thread (W)
    hLoaded,              \* value read by the thread's "+= 1" and not yet written back
    log,                  \* the worker's log file: "missing", "fresh", "stale", "error"
    sig,                  \* "none", or "taken" once the signal handler has started
    sdCtx,                \* who runs shutdown(): "none", "handler", "finally"
    resume,               \* where SystemExit lands: "finally" (inside run's try) or "exit"
    exitCode,             \* exit code of the supervisor, -1 while it runs
    sigAt,                \* what the main thread was doing when the signal arrived:
                          \* "none", "monitoring" (the loop of run) or "busy"
    pidFile,              \* bot_keeper.pid exists
    slept,                \* seconds of the main thread's latest time.sleep (or timed-out wait)
    idleLeft,             \* quiet periods still allowed (bound)
    callsLeft,            \* restart_bot calls still allowed (bound)
    \* history variables, read by the properties only
    streak,               \* failing health checks since the last passing one
    restartLog,           \* ages of the relaunches made by restart_bot
    rbCooled,             \* the current restart_bot call slept the rate-limit cooldown
    rbLen0,               \* restarts of the last hour counted by the current restart_bot call
    rbLaunched0,          \* launched, at the start of the current restart_bot call
    rbOld,                \* self.bot_process at the start of the current restart_bot call
    rbAppended,           \* the current restart_bot call has appended its timestamp
    appended,             \* timestamps ever appended to restart_history
    mgr,                  \* BulletproofBotManager.stop_all: "idle", "waiting", "stopped"
    failStreak,           \* restart_bot calls that returned False since the last True
    termLog,              \* what the current termination sequence has done to the worker
    waited,               \* seconds the timed-out wait of that sequence lasted (0: none)
    lastStop,             \* how restart_bot stopped the previous worker
    calm,                 \* initial start succeeded and nothing went wrong since
    \* the text of the worker's log, for the functions that read it
    line,                 \* a log line, as a sequence of tokens
    tail,                 \* the last 5000 characters: n lines, the line above at pos,
                          \* nl = the text ends with a newline
    lineRecent,           \* result of _is_recent_log_line(line): "unset", "yes", "no"
    scan                  \* verdict of check_bot_health on the tail: "unset", "healthy",
                          \* "unhealthy"

vars == <<kind, prereq, mgr, failStreak, appended, termLog, waited, sigAt, mpc, ctx, ret, running, bot_process, spawned, alive, launched,
          restart_history, nowAge, consecutive_failures, hpc, hLoaded, log, sig,
          sdCtx, resume, exitCode, pidFile, slept, idleLeft, callsLeft, streak,
          restartLog,
          rbCooled, rbLen0, rbLaunched0, rbOld, rbAppended, lastStop, calm,
          line, tail, lineRecent, scan>>

procVars == <<bot_process, spawned, alive, launched>>
histVars == <<restart_history, nowAge, restartLog>>
healthVars == <<hpc, hLoaded>>
sigVars == <<sig, sdCtx, resume, exitCode>>
textVars == <<line, tail, lineRecent, scan>>
termGhost == <<termLog, waited>>
rbGhost == <<rbCooled, rbLen0, rbLaunched0, rbOld, rbAppended, lastStop>>

\* ---- main(): the checks made before the supervisor is constructed ----
\* BotKeeper.main looks for the bot script, the venv interpreter and the two
\* Slack tokens of the environment; the watchdog's main checks nothing
Prerequisites(k) ==
    IF k = "K" THEN {"ok", "no_script", "no_venv", "no_env"} ELSE {"ok"}

\* if not bot_script.exists(): return 1 ... if missing: return 1
ValidatedLax(p) == TRUE
Validated(p) == p = "ok"

\* ---- construction: __init__ of both classes ----
Constructed(calls, logs) ==
    /\ kind \in Kinds
    /\ prereq \in Prerequisites(kind)
    /\ mpc = "start"
    /\ ctx = "init"
    /\ ret = FALSE
    /\ running = TRUE
    /\ bot_process = 0
    /\ spawned = 0
    /\ alive = {}
    /\ launched = 0
    /\ restart_history = <<>>
    /\ nowAge = 0
    /\ consecutive_failures = 0
    /\ hpc = "h_off"
    /\ hLoaded = 0
    /\ log \in logs
    /\ sig = "none"
    /\ sdCtx = "none"
    /\ resume = "exit"
    /\ exitCode = -1
    /\ sigAt = "none"
    /\ pidFile = FALSE
    /\ slept = 0
    /\ idleLeft = MaxIdle
    /\ callsLeft = calls
    /\ streak = 0
    /\ restartLog = <<>>
    /\ rbCooled = FALSE
    /\ rbLen0 = 0
    /\ rbLaunched0 = 0
    /\ rbOld = 0
    /\ rbAppended = FALSE
    /\ appended = 0
    /\ mgr = "idle"
    /\ failStreak = 0
    /\ termLog = <<>>
    /\ waited = 0
    /\ lastStop = "none"
    /\ calm = FALSE

\* the supervisor state machine does not look into the text of the log
NoTail == [n |-> 0, pos |-> 0, nl |-> FALSE]
Setup(calls, logs) ==
    /\ Constructed(calls, logs)
    /\ line = <<>>
    /\ tail = NoTail
    /\ lineRecent = "unset"
    /\ scan = "unset"

\* a supervisor is started; an old log file may or may not be there
Init == Setup(MaxRestarts, {"missing", "fresh", "stale"})

\* a supervisor is started for a worker that never writes its log
StormInit == Setup(MaxStorm, {"stale"})

\* time.sleep(seconds) of the main thread: every timestamp grows older
Sleep(seconds) ==
    /\ slept' = seconds
    /\ restart_history' = Older(kind, restart_history, Ticks(kind, seconds))
    /\ restartLog' = Within(kind, Older(kind, restartLog, Ticks(kind, seconds)))
    /\ nowAge' = IF mpc \in {"rb_cool"} THEN nowAge + Ticks(kind, seconds) ELSE nowAge


\* os.killpg(os.getpgid(pid), signal.SIGKILL) / proc.kill(): the process is gone
KillGroupLost(procs, pid) == procs
KillGroup(procs, pid) == procs \ {pid}

\* kill_existing_bots: every process whose command line names the worker
\* script is killed (and waited for) before a launch
KillExisting(procs) == {}

\* is_bot_running (W): handle set, poll() is None, pid exists
is_bot_running == bot_process # 0 /\ bot_process \in alive

\* check_slack_connection (W): False only when the log exists and is stale
check_slack_connectionStrict == log \notin {"stale", "missing"}
check_slack_connection == log # "stale"

\* check_bot_health (K): process alive, log not stale, no recent error line
check_bot_health ==
    /\ bot_process # 0
    /\ bot_process \in alive
    /\ log # "stale"
    /\ log # "error"

InStartBot == mpc \in {"sb_kill", "sb_popen", "sb_assign", "sb_sleep", "sb_poll"}
InRestartBot ==
    \/ mpc \in {"rb_entry", "rb_cool", "rb_reset", "rb_append", "rb_term", "rb_wait",
                "rb_kill", "rb_clear", "rb_cooldown"}
    \/ (InStartBot /\ ctx = "restart")
InShutdown == mpc \in {"sd_flag", "sd_term", "sd_wait", "sd_kill", "sd_end"}
\* positions inside the try block of run()
InTry == InRestartBot \/ mpc \in {"loop", "loop_sleep", "rb_ret", "backoff"}

\* ---- run(): up to the initial start_bot ----
\* W: the health thread is started; K: save_pid()
Start ==
    /\ mpc = "start"
    /\ Validated(prereq)
    /\ mpc' = "sb_kill"
    /\ ctx' = "init"
    /\ hpc' = IF kind = "W" THEN "h_loop" ELSE hpc
    /\ pidFile' = IF kind = "K" THEN TRUE ELSE pidFile
    /\ UNCHANGED <<kind, prereq, mgr, failStreak, termGhost, appended, textVars, sigAt, ret, running, procVars, histVars, consecutive_failures,
                   hLoaded, log, sigVars, slept, idleLeft, callsLeft, streak, rbGhost, calm>>

\* main() returns 1 before any supervisor exists
MainFails ==
    /\ mpc = "start"
    /\ ~Validated(prereq)
    /\ mpc' = "exited"
    /\ exitCode' = 1
    /\ UNCHANGED <<kind, prereq, mgr, failStreak, termGhost, appended, textVars, sigAt, ctx, ret, running, procVars, histVars,
                   consecutive_failures, healthVars, log, sig, sdCtx, resume, pidFile,
                   slept, idleLeft, callsLeft, streak, rbGhost, calm>>

\* ---- start_bot ----
SbKill ==
    /\ mpc = "sb_kill"
    /\ alive' = KillExisting(alive)
    /\ mpc' = "sb_popen"
    /\ UNCHANGED <<kind, prereq, mgr, failStreak, termGhost, appended, textVars, sigAt, ctx, ret, running, bot_process, spawned, launched, histVars,
                   consecutive_failures, healthVars, log, sigVars, pidFile, slept,
                   idleLeft, callsLeft, streak, rbGhost, calm>>

\* subprocess.Popen forks the worker in its own process group ...
SbPopen ==
    /\ mpc = "sb_popen"
    /\ launched' = launched + 1
    /\ spawned' = launched + 1
    /\ alive' = alive \cup {launched + 1}
    /\ restartLog' = IF ctx = "restart" THEN Append(restartLog, 0) ELSE restartLog
    /\ mpc' = "sb_assign"
    /\ UNCHANGED <<kind, prereq, mgr, failStreak, termGhost, appended, textVars, sigAt, ctx, ret, running, bot_process, restart_history, nowAge,
                   consecutive_failures, healthVars, log, sigVars, pidFile, slept,
                   idleLeft, callsLeft, streak, rbGhost, calm>>

\* ... or raises (except Exception: return False)
SbPopenRaises ==
    /\ mpc = "sb_popen"
    /\ ret' = FALSE
    /\ mpc' = IF ctx = "init" THEN "init_ret" ELSE "rb_ret"
    /\ UNCHANGED <<kind, prereq, mgr, failStreak, termGhost, appended, textVars, sigAt, ctx, running, procVars, histVars, consecutive_failures,
                   healthVars, log, sigVars, pidFile, slept, idleLeft, callsLeft, streak,
                   rbGhost, calm>>

\* self.bot_process = <the Popen object>
SbAssign ==
    /\ mpc = "sb_assign"
    /\ bot_process' = spawned
    /\ spawned' = 0
    /\ mpc' = "sb_sleep"
    /\ UNCHANGED <<kind, prereq, mgr, failStreak, termGhost, appended, textVars, sigAt, ctx, ret, running, alive, launched, histVars,
                   consecutive_failures, healthVars, log, sigVars, pidFile, slept,
                   idleLeft, callsLeft, streak, rbGhost, calm>>

\* time.sleep(5) / time.sleep(10)
SbSleep ==
    /\ mpc = "sb_sleep"
    /\ Sleep(StartupGrace(kind))
    /\ mpc' = "sb_poll"
    /\ UNCHANGED <<kind, prereq, mgr, failStreak, termGhost, appended, textVars, sigAt, ctx, ret, running, procVars, consecutive_failures,
                   healthVars, log, sigVars, pidFile, idleLeft, callsLeft, streak, rbGhost, calm>>

\* if self.bot_process.poll() is None: (W: self.consecutive_failures = 0) return True
\* else: return False
SbPoll ==
    /\ mpc = "sb_poll"
    /\ ret' = (bot_process \in alive)
    /\ consecutive_failures' =
          IF kind = "W" /\ bot_process \in alive THEN 0 ELSE consecutive_failures
    /\ mpc' = IF ctx = "init" THEN "init_ret" ELSE "rb_ret"
    /\ calm' = IF ctx = "init" THEN (bot_process \in alive /\ log = "fresh") ELSE calm
    /\ UNCHANGED <<kind, prereq, mgr, failStreak, termGhost, appended, textVars, sigAt, ctx, running, procVars, histVars, healthVars, log, sigVars,
                   pidFile, slept, idleLeft, callsLeft, streak, rbGhost>>

\* if not self.start_bot(): return 1
InitRet ==
    /\ mpc = "init_ret"
    /\ IF ret
       THEN /\ mpc' = "loop"
            /\ UNCHANGED <<exitCode, hpc>>
       ELSE /\ mpc' = "exited"
            /\ exitCode' = 1
            /\ hpc' = IF kind = "W" THEN "h_done" ELSE hpc
    /\ UNCHANGED <<kind, prereq, mgr, failStreak, termGhost, appended, textVars, sigAt, ctx, ret, running, procVars, histVars, consecutive_failures,
                   hLoaded, log, sig, sdCtx, resume, pidFile, slept, idleLeft, callsLeft,
                   streak, rbGhost, calm>>


\* ---- run(): the monitoring loop ----
\* W: while self.running: if self.consecutive_failures >= 3: restart_bot()
WLoop ==
    /\ kind = "W"
    /\ mpc = "loop"
    /\ IF ~running
       THEN mpc' = "sd_flag" /\ sdCtx' = "finally"
       ELSE /\ consecutive_failures >= Threshold(kind) => callsLeft > 0
            /\ mpc' = IF consecutive_failures >= Threshold(kind)
                      THEN "rb_entry" ELSE "loop_sleep"
            /\ sdCtx' = sdCtx
    /\ UNCHANGED <<kind, prereq, mgr, failStreak, termGhost, appended, textVars, sigAt, ctx, ret, running, procVars, histVars, consecutive_failures,
                   healthVars, log, sig, resume, exitCode, pidFile, slept, idleLeft,
                   callsLeft, streak, rbGhost, calm>>

\* K: while self.running: check_bot_health(), count, restart after 2 failures
KLoop ==
    /\ kind = "K"
    /\ mpc = "loop"
    /\ IF ~running
       THEN /\ mpc' = "sd_flag" /\ sdCtx' = "finally"
            /\ UNCHANGED <<consecutive_failures, streak>>
       ELSE /\ sdCtx' = sdCtx
            /\ IF check_bot_health
               THEN /\ consecutive_failures' = 0
                    /\ streak' = 0
                    /\ mpc' = "loop_sleep"
               ELSE /\ Bump(kind, consecutive_failures) >= Threshold(kind)
                          => callsLeft > 0
                    /\ consecutive_failures' = Bump(kind, consecutive_failures)
                    /\ streak' = Bump(kind, streak)
                    /\ mpc' = IF Bump(kind, consecutive_failures) >= Threshold(kind)
                              THEN "rb_entry" ELSE "loop_sleep"
    /\ UNCHANGED <<kind, prereq, mgr, failStreak, termGhost, appended, textVars, sigAt, ctx, ret, running, procVars, histVars, healthVars, log, sig,
                   resume, exitCode, pidFile, slept, idleLeft, callsLeft, rbGhost, calm>>

\* time.sleep(self.check_interval)
LoopSleep ==
    /\ mpc = "loop_sleep"
    /\ Sleep(check_interval(kind))
    /\ mpc' = "loop"
    /\ UNCHANGED <<kind, prereq, mgr, failStreak, termGhost, appended, textVars, sigAt, ctx, ret, running, procVars, consecutive_failures,
                   healthVars, log, sigVars, pidFile, idleLeft, callsLeft, streak, rbGhost, calm>>

\* ---- restart_bot ----
\* now = datetime.now(); the history is pruned (K) or filtered into
\* recent_restarts (W) and its length compared with max_restarts_per_hour
RbEntry ==
    /\ mpc = "rb_entry"
    /\ nowAge' = 0
    /\ restart_history' = IF kind = "K" THEN Prune(kind, restart_history, 0)
                          ELSE restart_history
    /\ mpc' = IF RateLimited(kind, Len(Prune(kind, restart_history, 0)))
              THEN "rb_cool" ELSE "rb_append"
    /\ rbCooled' = FALSE
    /\ rbLen0' = Len(Prune(kind, restart_history, 0))
    /\ rbLaunched0' = launched
    /\ rbOld' = bot_process
    /\ rbAppended' = FALSE
    /\ lastStop' = "none"
    /\ callsLeft' = callsLeft - 1
    /\ UNCHANGED <<kind, prereq, mgr, failStreak, termGhost, appended, textVars, sigAt, ctx, ret, running, procVars, restartLog, consecutive_failures,
                   healthVars, log, sigVars, pidFile, slept, idleLeft, streak, calm>>

\* time.sleep(300); return False (W)   /   time.sleep(600) (K)
RbCool ==
    /\ mpc = "rb_cool"
    /\ Sleep(RateCooldown(kind))
    /\ rbCooled' = TRUE
    /\ IF kind = "W"
       THEN ret' = FALSE /\ mpc' = "rb_ret"
       ELSE ret' = ret /\ mpc' = "rb_reset"
    /\ UNCHANGED <<kind, prereq, mgr, failStreak, termGhost, appended, textVars, sigAt, ctx, running, procVars, consecutive_failures, healthVars, log,
                   sigVars, pidFile, idleLeft, callsLeft, streak, rbLen0, rbLaunched0, rbOld, rbAppended,
                   lastStop, calm>>

\* self.restart_history = []  (K, after the cooldown)
ResetHistoryKept(h) == h
ResetHistory(h) == <<>>

RbReset ==
    /\ mpc = "rb_reset"
    /\ restart_history' = ResetHistory(restart_history)
    /\ mpc' = "rb_append"
    /\ UNCHANGED <<kind, prereq, mgr, failStreak, termGhost, appended, textVars, sigAt, ctx, ret, running, procVars, nowAge, restartLog,
                   consecutive_failures, healthVars, log, sigVars, pidFile, slept,
                   idleLeft, callsLeft, streak, rbGhost, calm>>

\* self.restart_history.append(now)
RecordRestartSkipped(h, now) == h
RecordRestart(h, now) == Append(h, now)

\* self.restart_history.append(now)  (W: followed by the pruning of line 171)
RbAppend ==
    /\ mpc = "rb_append"
    /\ LET recorded == RecordRestart(restart_history, nowAge)
       IN  /\ restart_history' =
                 IF kind = "W" THEN Prune(kind, recorded, nowAge) ELSE recorded
           /\ appended' = appended + (Len(recorded) - Len(restart_history))
           /\ rbAppended' = (Len(recorded) > Len(restart_history))
    /\ mpc' = "rb_term"
    /\ UNCHANGED <<kind, prereq, mgr, failStreak, termGhost, textVars, sigAt, ctx, ret, running, procVars, nowAge, restartLog,
                   consecutive_failures, healthVars, log, sigVars, pidFile, slept,
                   idleLeft, callsLeft, streak, rbCooled, rbLen0, rbLaunched0, rbOld,
                   lastStop, calm>>

\* except (subprocess.TimeoutExpired, ProcessLookupError[, OSError]): what
\* ends the try block decides whether the SIGKILL of the handler is attempted
EscalatesAlways(k, outcome) == TRUE
Escalates(k, outcome) ==
    outcome \in {"TimeoutExpired", "ProcessLookupError"}
                 \cup (IF k = "K" THEN {"OSError"} ELSE {})

\* if self.bot_process: os.killpg(os.getpgid(pid), SIGTERM)
\* A worker that has exited but was not reaped still takes the signal and the
\* wait returns at once; for a reaped one os.getpgid raises ProcessLookupError,
\* which is caught, and so does the SIGKILL attempt of the handler.
RbTerm ==
    /\ mpc = "rb_term"
    /\ waited' = 0
    /\ IF bot_process = 0
       THEN mpc' = "rb_cooldown" /\ lastStop' = lastStop /\ termLog' = <<>>
       ELSE IF bot_process \in alive
            THEN mpc' = "rb_wait" /\ lastStop' = lastStop /\ termLog' = <<"TERM">>
            ELSE \/ mpc' = "rb_wait" /\ lastStop' = lastStop /\ termLog' = <<"TERM">>
                 \/ /\ mpc' = "rb_clear"
                    /\ lastStop' = "gone"
                    /\ termLog' = <<"NOPROC", "NOPROC">>
    /\ UNCHANGED <<kind, prereq, mgr, failStreak, appended, textVars, sigAt, ctx, ret, running, procVars, histVars, consecutive_failures,
                   healthVars, log, sigVars, pidFile, slept, idleLeft, callsLeft, streak,
                   rbCooled, rbLen0, rbLaunched0, rbOld, rbAppended, calm>>

\* self.bot_process.wait(timeout=10): the worker exits in time, or TimeoutExpired
RbWait ==
    /\ mpc = "rb_wait"
    /\ \/ /\ alive' = alive \ {bot_process}
          /\ lastStop' = IF bot_process \in alive THEN "exited" ELSE "gone"
          /\ termLog' = Append(termLog, "EXITED")
          /\ waited' = 0
          /\ mpc' = IF Escalates(kind, "returned") THEN "rb_kill" ELSE "rb_clear"
       \/ /\ bot_process \in alive
          /\ Escalates(kind, "TimeoutExpired")
          /\ alive' = alive
          /\ lastStop' = lastStop
          /\ termLog' = Append(termLog, "TIMEOUT")
          /\ waited' = restart_wait
          /\ mpc' = "rb_kill"
    /\ UNCHANGED <<kind, prereq, mgr, failStreak, appended, textVars, sigAt, ctx, ret, running, bot_process, spawned, launched, histVars,
                   consecutive_failures, healthVars, log, sigVars, pidFile, slept,
                   idleLeft, callsLeft, streak, rbCooled, rbLen0, rbLaunched0, rbOld, rbAppended, calm>>

\* except TimeoutExpired: os.killpg(os.getpgid(pid), SIGKILL)
RbKill ==
    /\ mpc = "rb_kill"
    /\ alive' = KillGroup(alive, bot_process)
    /\ termLog' = Append(termLog, "KILL")
    /\ waited' = waited
    /\ lastStop' = "killed"
    /\ mpc' = "rb_clear"
    /\ UNCHANGED <<kind, prereq, mgr, failStreak, appended, textVars, sigAt, ctx, ret, running, bot_process, spawned, launched, histVars,
                   consecutive_failures, healthVars, log, sigVars, pidFile, slept,
                   idleLeft, callsLeft, streak, rbCooled, rbLen0, rbLaunched0, rbOld, rbAppended, calm>>

\* self.bot_process = None
RbClear ==
    /\ mpc = "rb_clear"
    /\ bot_process' = 0
    /\ termLog' = <<>>
    /\ waited' = 0
    /\ mpc' = "rb_cooldown"
    /\ UNCHANGED <<kind, prereq, mgr, failStreak, appended, textVars, sigAt, ctx, ret, running, spawned, alive, launched, histVars,
                   consecutive_failures, healthVars, log, sigVars, pidFile, slept,
                   idleLeft, callsLeft, streak, rbGhost, calm>>

\* time.sleep(self.restart_cooldown); return self.start_bot()
RbCooldown ==
    /\ mpc = "rb_cooldown"
    /\ Sleep(restart_cooldown(kind))
    /\ ctx' = "restart"
    /\ mpc' = "sb_kill"
    /\ UNCHANGED <<kind, prereq, mgr, failStreak, termGhost, appended, textVars, sigAt, ret, running, procVars, consecutive_failures, healthVars,
                   log, sigVars, pidFile, idleLeft, callsLeft, streak, rbGhost, calm>>

\* back in run(): if not self.restart_bot(): backoff ... time.sleep(backoff);
\* then, either way, time.sleep(self.check_interval)
RestartOutcomeAbort(ok) == IF ok THEN "loop_sleep" ELSE "exited"
RestartOutcome(ok) == IF ok THEN "loop_sleep" ELSE "backoff"

\* back in run(): K resets its counter on True; on False both back off
RbRet ==
    /\ mpc = "rb_ret"
    /\ consecutive_failures' = AfterRestart(kind, ret, consecutive_failures)
    /\ mpc' = RestartOutcome(ret)
    /\ ctx' = "init"
    /\ failStreak' = IF ret THEN 0 ELSE Min(failStreak + 1, FailCap(kind))
    /\ rbCooled' = FALSE
    /\ rbLen0' = 0
    /\ rbLaunched0' = 0
    /\ rbOld' = 0
    /\ rbAppended' = FALSE
    /\ lastStop' = "none"
    /\ UNCHANGED <<kind, prereq, mgr, termGhost, appended, textVars, sigAt, ret, running, procVars, histVars, healthVars, log, sigVars,
                   pidFile, slept, idleLeft, callsLeft, streak, calm>>

\* backoff = min(...); time.sleep(backoff)
BackoffSleep ==
    /\ mpc = "backoff"
    /\ Sleep(Backoff(kind, consecutive_failures))
    /\ mpc' = "loop_sleep"
    /\ UNCHANGED <<kind, prereq, mgr, failStreak, termGhost, appended, textVars, sigAt, ctx, ret, running, procVars, consecutive_failures,
                   healthVars, log, sigVars, pidFile, idleLeft, callsLeft, streak, rbGhost, calm>>


\* ---- shutdown(): called by the signal handler and by run()'s finally ----
\* self.running = False
SdFlag ==
    /\ mpc = "sd_flag"
    /\ running' = FALSE
    /\ mpc' = "sd_term"
    /\ UNCHANGED <<kind, prereq, mgr, failStreak, termGhost, appended, textVars, sigAt, ctx, ret, procVars, histVars, consecutive_failures,
                   healthVars, log, sigVars, pidFile, slept, idleLeft, callsLeft, streak,
                   rbGhost, calm>>

\* except ProcessLookupError: pass  (K: except (ProcessLookupError, OSError))
\* around the SIGKILL of shutdown(); anything else leaves shutdown() as an
\* exception that ends the process with a traceback
SwallowedNone(k, e) == FALSE
Swallowed(k, e) ==
    e \in {"ProcessLookupError"} \cup (IF k = "K" THEN {"OSError"} ELSE {})

\* if self.bot_process: os.killpg(os.getpgid(pid), SIGTERM)
\* (for a worker already reaped both killpg attempts raise ProcessLookupError)
SdTerm ==
    /\ mpc = "sd_term"
    /\ waited' = 0
    /\ IF bot_process = 0
       THEN mpc' = "sd_end" /\ termLog' = <<>> /\ UNCHANGED <<exitCode, hpc>>
       ELSE IF bot_process \in alive
            THEN mpc' = "sd_wait" /\ termLog' = <<"TERM">> /\ UNCHANGED <<exitCode, hpc>>
            ELSE \/ mpc' = "sd_wait" /\ termLog' = <<"TERM">> /\ UNCHANGED <<exitCode, hpc>>
                 \/ /\ termLog' = <<"NOPROC", "NOPROC">>
                    /\ IF Swallowed(kind, "ProcessLookupError")
                       THEN mpc' = "sd_end" /\ UNCHANGED <<exitCode, hpc>>
                       ELSE /\ mpc' = "exited"
                            /\ exitCode' = 1
                            /\ hpc' = IF kind = "W" THEN "h_done" ELSE hpc
    /\ UNCHANGED <<kind, prereq, mgr, failStreak, appended, textVars, sigAt, ctx, ret, running, procVars, histVars, consecutive_failures,
                   hLoaded, log, sig, sdCtx, resume, pidFile, slept, idleLeft, callsLeft, streak,
                   rbGhost, calm>>

\* self.bot_process.wait(timeout=10 / 15): exit in time, or TimeoutExpired
SdWait ==
    /\ mpc = "sd_wait"
    /\ \/ /\ alive' = alive \ {bot_process}
          /\ termLog' = Append(termLog, "EXITED")
          /\ waited' = 0
          /\ mpc' = IF Escalates(kind, "returned") THEN "sd_kill" ELSE "sd_end"
          /\ slept' = slept
       \/ /\ bot_process \in alive
          /\ Escalates(kind, "TimeoutExpired")
          /\ alive' = alive
          /\ termLog' = Append(termLog, "TIMEOUT")
          /\ waited' = ShutdownWait(kind)
          /\ mpc' = "sd_kill"
          /\ slept' = ShutdownWait(kind)
    /\ UNCHANGED <<kind, prereq, mgr, failStreak, appended, textVars, sigAt, ctx, ret, running, bot_process, spawned, launched, histVars,
                   consecutive_failures, healthVars, log, sigVars, pidFile,
                   idleLeft, callsLeft, streak, rbGhost, calm>>

\* except TimeoutExpired: os.killpg(os.getpgid(pid), SIGKILL)
SdKill ==
    /\ mpc = "sd_kill"
    /\ alive' = KillGroup(alive, bot_process)
    /\ termLog' = Append(termLog, "KILL")
    /\ waited' = waited
    /\ mpc' = "sd_end"
    /\ UNCHANGED <<kind, prereq, mgr, failStreak, appended, textVars, sigAt, ctx, ret, running, bot_process, spawned, launched, histVars,
                   consecutive_failures, healthVars, log, sigVars, pidFile, slept,
                   idleLeft, callsLeft, streak, rbGhost, calm>>

\* cleanup_pid: bot_keeper.pid is unlinked
cleanup_pidKept(f) == f
cleanup_pid(f) == FALSE

\* K: cleanup_pid().  Then the handler's sys.exit(0): SystemExit unwinds the
\* interrupted code and, inside run()'s try, runs the finally block (shutdown
\* once more); run()'s own shutdown is followed by return 0.
SdEnd ==
    /\ mpc = "sd_end"
    /\ pidFile' = IF kind = "K" THEN cleanup_pid(pidFile) ELSE pidFile
    /\ termLog' = <<>>
    /\ waited' = 0
    /\ IF sdCtx = "handler" /\ resume = "finally"
       THEN /\ sdCtx' = "finally"
            /\ mpc' = "sd_flag"
            /\ UNCHANGED <<exitCode, hpc>>
       ELSE /\ sdCtx' = "none"
            /\ mpc' = "exited"
            /\ exitCode' = 0
            /\ hpc' = IF kind = "W" THEN "h_done" ELSE hpc
    /\ UNCHANGED <<kind, prereq, mgr, failStreak, appended, textVars, sigAt, ctx, ret, running, procVars, histVars, consecutive_failures,
                   hLoaded, log, sig, resume, slept, idleLeft, callsLeft, streak, rbGhost, calm>>

\* SIGINT / SIGTERM reaches the supervisor: signal_handler interrupts the main
\* thread wherever it is and calls shutdown()
Deliver ==
    /\ sig = "none"
    /\ mpc # "exited"
    /\ sig' = "taken"
    /\ sdCtx' = "handler"
    /\ resume' = IF InTry THEN "finally" ELSE "exit"
    /\ sigAt' = IF mpc \in {"loop", "loop_sleep"} THEN "monitoring" ELSE "busy"
    /\ mpc' = "sd_flag"
    /\ UNCHANGED <<kind, prereq, failStreak, termGhost, appended, textVars, ctx, ret, running, procVars, histVars, consecutive_failures,
                   healthVars, log, exitCode, pidFile, slept, idleLeft, callsLeft, streak,
                   rbGhost, calm>>

Signal == Deliver /\ UNCHANGED mgr

\* ---- BulletproofBotManager.stop_all (production mode: the watchdog is its child) ----
\* process.terminate(): SIGTERM reaches the watchdog, whose handler takes over
MgrTerm ==
    /\ mgr = "idle"
    /\ Deliver
    /\ mgr' = "waiting"

\* process.wait(timeout=10) returns: the watchdog has exited
MgrReaped ==
    /\ mgr = "waiting"
    /\ mpc = "exited"
    /\ mgr' = "stopped"
    /\ UNCHANGED <<kind, prereq, failStreak, termGhost, appended, textVars, sigAt, mpc, ctx, ret, running,
                   procVars, histVars, consecutive_failures, healthVars, log, sigVars,
                   pidFile, slept, idleLeft, callsLeft, streak, rbGhost, calm>>

\* except subprocess.TimeoutExpired: process.kill(); process.wait()
\* The manager's 10 s began before the watchdog's own wait(timeout=10) for the
\* worker, so they are over while the watchdog still waits for a worker that
\* does not exit, or has just seen its wait time out.  SIGKILL ends the
\* watchdog only: the worker runs in a session of its own (os.setsid).
MgrKill ==
    /\ mgr = "waiting"
    /\ \/ mpc = "sd_wait" /\ bot_process \in alive
       \/ mpc = "sd_kill"
    /\ mgr' = "stopped"
    /\ mpc' = "exited"
    /\ exitCode' = ManagerKilled
    /\ hpc' = "h_done"
    /\ UNCHANGED <<kind, prereq, failStreak, termGhost, appended, textVars, sigAt, ctx, ret, running,
                   procVars, histVars, consecutive_failures, hLoaded, log, sig, sdCtx, resume,
                   pidFile, slept, idleLeft, callsLeft, streak, rbGhost, calm>>

\* a second SIGINT / SIGTERM while shutdown() is running: the handler runs
\* shutdown() again inside the interrupted one and then sys.exit(0) unwinds
\* both; run()'s finally still follows if the first signal arrived in the try
Signal2 ==
    /\ sig = "taken"
    /\ InShutdown
    /\ sig' = "twice"
    /\ resume' = IF sdCtx = "handler" THEN resume ELSE "exit"
    /\ sdCtx' = "handler"
    /\ mpc' = "sd_flag"
    /\ UNCHANGED <<kind, prereq, mgr, failStreak, termGhost, appended, textVars, sigAt, ctx, ret, running, procVars, histVars,
                   consecutive_failures, healthVars, log, exitCode, pidFile, slept,
                   idleLeft, callsLeft, streak, rbGhost, calm>>

\* ---- health_check_loop (the thread of W) ----
\* time.sleep(self.health_check_timeout); while self.running:
HLoop ==
    /\ hpc = "h_loop"
    /\ hpc' = IF running THEN "h_check" ELSE "h_done"
    /\ UNCHANGED <<kind, prereq, mgr, failStreak, termGhost, appended, textVars, sigAt, mpc, ctx, ret, running, procVars, histVars,
                   consecutive_failures, hLoaded, log, sigVars, pidFile, slept,
                   idleLeft, callsLeft, streak, rbGhost, calm>>

\* if not is_bot_running(): ... elif not check_slack_connection(): ...
\* else: self.consecutive_failures = 0
HCheck ==
    /\ hpc = "h_check"
    /\ IF is_bot_running /\ check_slack_connection
       THEN /\ consecutive_failures' = 0
            /\ streak' = 0
            /\ hpc' = "h_loop"
       ELSE /\ consecutive_failures' = consecutive_failures
            /\ streak' = Bump(kind, streak)
            /\ hpc' = "h_inc"
    /\ UNCHANGED <<kind, prereq, mgr, failStreak, termGhost, appended, textVars, sigAt, mpc, ctx, ret, running, procVars, histVars, hLoaded, log,
                   sigVars, pidFile, slept, idleLeft, callsLeft, rbGhost, calm>>

\* self.consecutive_failures += 1 : the read ...
HInc ==
    /\ hpc = "h_inc"
    /\ hLoaded' = consecutive_failures
    /\ hpc' = "h_store"
    /\ UNCHANGED <<kind, prereq, mgr, failStreak, termGhost, appended, textVars, sigAt, mpc, ctx, ret, running, procVars, histVars,
                   consecutive_failures, log, sigVars, pidFile, slept, idleLeft, callsLeft,
                   streak, rbGhost, calm>>

\* ... and the write
HStore ==
    /\ hpc = "h_store"
    /\ consecutive_failures' = Bump(kind, hLoaded)
    /\ hLoaded' = 0
    /\ hpc' = "h_loop"
    /\ UNCHANGED <<kind, prereq, mgr, failStreak, termGhost, appended, textVars, sigAt, mpc, ctx, ret, running, procVars, histVars, log, sigVars,
                   pidFile, slept, idleLeft, callsLeft, streak, rbGhost, calm>>

\* ---- environment ----
\* the worker exits on its own (crash, or a fatal error at startup)
WorkerExit ==
    /\ exitCode = -1
    /\ \E p \in alive : alive' = alive \ {p}
    /\ calm' = FALSE
    /\ UNCHANGED <<kind, prereq, mgr, failStreak, termGhost, appended, textVars, sigAt, mpc, ctx, ret, running, bot_process, spawned, launched,
                   histVars, consecutive_failures, healthVars, log, sigVars, pidFile,
                   slept, idleLeft, callsLeft, streak, rbGhost>>

\* a live worker writes its log: an ordinary line, or an error line
WorkerLogs ==
    /\ exitCode = -1
    /\ alive # {}
    /\ log' \in {"fresh", "error"} \ {log}
    /\ calm' = (calm /\ log' = "fresh")
    /\ UNCHANGED <<kind, prereq, mgr, failStreak, termGhost, appended, textVars, sigAt, mpc, ctx, ret, running, procVars, histVars,
                   consecutive_failures, healthVars, sigVars, pidFile, slept,
                   idleLeft, callsLeft, streak, rbGhost>>

\* nothing is written for more than five minutes
LogAges ==
    /\ exitCode = -1
    /\ log \in {"fresh", "error"}
    /\ log' = "stale"
    /\ calm' = FALSE
    /\ UNCHANGED <<kind, prereq, mgr, failStreak, termGhost, appended, textVars, sigAt, mpc, ctx, ret, running, procVars, histVars,
                   consecutive_failures, healthVars, sigVars, pidFile, slept,
                   idleLeft, callsLeft, streak, rbGhost>>

\* a quiet period: the loop keeps sleeping and checking while time passes
TimePasses ==
    /\ mpc = "loop_sleep"
    /\ idleLeft > 0
    /\ idleLeft' = idleLeft - 1
    /\ \E t \in {1, HourTicks(kind)} :
          /\ restart_history' = Older(kind, restart_history, t)
          /\ restartLog' = Within(kind, Older(kind, restartLog, t))
    /\ UNCHANGED <<kind, prereq, mgr, failStreak, termGhost, appended, textVars, sigAt, mpc, ctx, ret, running, procVars, nowAge,
                   consecutive_failures, healthVars, log, sigVars, pidFile, slept,
                   callsLeft, streak, rbGhost, calm>>

\* run(), start_bot and restart_bot
RunStep ==
    \/ Start \/ MainFails \/ SbKill \/ SbPopen \/ SbAssign \/ SbSleep \/ SbPoll
    \/ InitRet \/ WLoop \/ KLoop \/ LoopSleep
    \/ RbEntry \/ RbAppend \/ RbTerm \/ RbWait \/ RbKill
    \/ RbClear \/ RbCooldown \/ RbRet \/ BackoffSleep

\* the rate-limit branch of restart_bot
RateLimitStep == RbCool \/ RbReset

ShutdownStep == SdFlag \/ SdTerm \/ SdWait \/ SdKill \/ SdEnd

HealthStep == HLoop \/ HCheck \/ HInc \/ HStore

EnvStep == WorkerExit \/ WorkerLogs \/ LogAges \/ TimePasses \/ Signal

Next == RunStep \/ SbPopenRaises \/ ShutdownStep \/ HealthStep \/ EnvStep

\* every behaviour of either supervisor, up to MaxRestarts calls of restart_bot
\* (fewer than the rate limit, whose branch is therefore left to StormSpec)
Spec == Init /\ [][Next]_vars

\* a restart storm: the worker starts but hangs, its log stays stale, and the
\* supervisor restarts it again and again until the rate limit is reached
StormNext ==
    RunStep \/ RateLimitStep \/ ShutdownStep \/ HealthStep \/ TimePasses \/ Signal

StormSpec == StormInit /\ [][StormNext]_vars


\* the supervisor under fair scheduling: the main thread and the health
\* thread keep taking steps, and Popen does not raise
LiveNext == RunStep \/ ShutdownStep \/ HealthStep \/ EnvStep

LiveInit == Setup(MaxLive, {"missing", "fresh", "stale"})

LiveSpec ==
    /\ LiveInit
    /\ [][LiveNext]_vars
    /\ WF_vars(RunStep)
    /\ WF_vars(HealthStep)

\* a worker that keeps failing: launches raise or the worker exits, now or
\* later, while the log file stays as it is; the threads are scheduled fairly
RetryInit == Setup(MaxRetry, {"fresh", "stale"})

RetryNext ==
    RunStep \/ SbPopenRaises \/ ShutdownStep \/ HealthStep \/ WorkerExit \/ Signal

RetrySpec ==
    /\ RetryInit
    /\ [][RetryNext]_vars
    /\ WF_vars(RunStep)
    /\ WF_vars(HealthStep)

\* a restart storm long enough to fill the hourly limit and to outlast the
\* hour that follows, under fair scheduling of both threads
LockInit == Setup(MaxLock, {"stale"})

LockNext == RunStep \/ RateLimitStep \/ ShutdownStep \/ HealthStep \/ Signal

LockSpec ==
    /\ LockInit
    /\ [][LockNext]_vars
    /\ WF_vars(RunStep \/ RateLimitStep)
    /\ WF_vars(HealthStep)

\* the watchdog as the child of BulletproofBotManager, which stops it once
WatchdogStep ==
    \/ Start \/ SbKill \/ SbPopen \/ SbAssign \/ SbSleep \/ SbPoll
    \/ InitRet \/ WLoop \/ LoopSleep
    \/ RbEntry \/ RbAppend \/ RbTerm \/ RbWait \/ RbKill
    \/ RbClear \/ RbCooldown \/ RbRet \/ BackoffSleep

MgrInit == Setup(MaxMgr, {"fresh", "stale"}) /\ kind = "W"

MgrNext ==
    \/ WatchdogStep \/ ShutdownStep \/ HealthStep \/ WorkerExit
    \/ MgrTerm \/ MgrReaped \/ MgrKill

MgrSpec == MgrInit /\ [][MgrNext]_vars

\* a supervisor that is signalled once or twice while it stops
ShutInit == Setup(MaxShut, {"missing", "fresh", "stale"})

ShutNext == Next \/ Signal2

ShutSpec == ShutInit /\ [][ShutNext]_vars

\* ---- the text of the worker's log (BotKeeper.check_bot_health) ----
\* A log line is a sequence of tokens: a timestamp 'YYYY-MM-DD HH:MM:SS' of
\* a given age in seconds ("ts119": 119 s old), text that is no timestamp
\* ("ts_bad": '2024-13-45 99:00:00'; "txt"), the characters '[', ',' and ' ',
\* and an error substring.
Stamps == {"ts119", "ts120", "ts121"}
Alphabet == Stamps \cup {"ts_bad", "[", ",", " ", "dispatch_failed", "txt"}
StampAge(tok) == CASE tok = "ts119" -> 119 [] tok = "ts120" -> 120 [] tok = "ts121" -> 121

error_patterns ==
    {"dispatch_failed", "ClientConnectorError", "Connection refused",
     "Network is unreachable", "SSL: CERTIFICATE_VERIFY_FAILED"}

\* s.split(sep)[0]: the text before the first sep, the whole text without one
SplitFirst(s, sep) ==
    IF \E i \in 1..Len(s) : s[i] = sep
    THEN SubSeq(s, 1, (CHOOSE i \in 1..Len(s) :
                          s[i] = sep /\ \A j \in 1..(i - 1) : s[j] # sep) - 1)
    ELSE s

\* s.strip()
Strip(s) ==
    IF \A i \in 1..Len(s) : s[i] = " "
    THEN <<>>
    ELSE SubSeq(s, CHOOSE i \in 1..Len(s) : s[i] # " " /\ \A j \in 1..(i - 1) : s[j] = " ",
                   CHOOSE i \in 1..Len(s) : s[i] # " " /\ \A j \in (i + 1)..Len(s) : s[j] = " ")

\* datetime.strptime(s, '%Y-%m-%d %H:%M:%S') succeeds: the whole text is one
\* timestamp (anything before or after it raises ValueError)
Strptime(s) == Len(s) = 1 /\ s[1] \in Stamps

\* datetime.now() - log_time < timedelta(minutes=2)
RecentWindowInclusive(age) == age <= K_recent_window
RecentWindow(age) == age < K_recent_window

\* _is_recent_log_line: any exception gives False
is_recent_log_line(l) ==
    LET timestamp_str == Strip(SplitFirst(l, "["))
        cut == SplitFirst(timestamp_str, ",")
    IN  IF Strptime(cut) THEN RecentWindow(StampAge(cut[1])) ELSE FALSE

\* pattern in line
Contains(l, pattern) == \E i \in 1..Len(l) : l[i] = pattern

\* an ordinary line of the worker
PlainLine == <<"ts119", "[", "txt">>

\* recent_logs.split('\n'): the n lines of the tail, and a last empty string
\* when the text ends with a newline
TailLines(l, t) ==
    [i \in 1..t.n |-> IF i = t.pos THEN l ELSE PlainLine]
       \o (IF t.nl THEN << <<>> >> ELSE <<>>)

\* lines[-20:]
LastLines(lines) ==
    SubSeq(lines, IF Len(lines) > K_scan_lines THEN Len(lines) - K_scan_lines + 1 ELSE 1,
           Len(lines))

\* Check 4: for pattern in error_patterns: if pattern in recent_logs:
\*   for line in reversed(lines[-20:]): if pattern in line and recent: return False
ErrorScan(lines) ==
    \E pattern \in error_patterns :
        /\ \E i \in 1..Len(lines) : Contains(lines[i], pattern)
        /\ \E i \in 1..Len(LastLines(lines)) :
              /\ Contains(LastLines(lines)[i], pattern)
              /\ is_recent_log_line(LastLines(lines)[i])

\* check_bot_health on a log whose text is known
check_bot_health_text(l, t) ==
    /\ bot_process # 0
    /\ bot_process \in alive
    /\ log # "stale"
    /\ ~ErrorScan(TailLines(l, t))

RECURSIVE SeqsUpTo(_, _)
SeqsUpTo(S, n) ==
    IF n = 0 THEN {<<>>}
    ELSE SeqsUpTo(S, n - 1) \cup
         {Append(q, x) : q \in {r \in SeqsUpTo(S, n - 1) : Len(r) = n - 1}, x \in S}

Lines == SeqsUpTo(Alphabet, MaxLineLen) \ {<<>>}

\* the line sits at the end of the tail, at the start, or at either edge of
\* the window of the last 20 lines
Tails ==
    {t \in [n : 1..MaxTailLines, pos : 1..MaxTailLines, nl : BOOLEAN] :
        t.pos \in {1, t.n, t.n - K_scan_lines, t.n - K_scan_lines + 1,
                   t.n - K_scan_lines + 2} \cap 1..t.n}

\* the keeper monitors a live worker whose log file is fresh
\* (the state BotKeeper.run is in when its initial start_bot has returned True)
KeeperMonitoring ==
    /\ kind = "K"
    /\ prereq = "ok"
    /\ mpc = "loop"
    /\ ctx = "init"
    /\ ret = TRUE
    /\ running = TRUE
    /\ bot_process = 1
    /\ spawned = 0
    /\ alive = {1}
    /\ launched = 1
    /\ restart_history = <<>>
    /\ nowAge = 0
    /\ consecutive_failures = 0
    /\ hpc = "h_off"
    /\ hLoaded = 0
    /\ log = "fresh"
    /\ sig = "none"
    /\ sdCtx = "none"
    /\ resume = "exit"
    /\ exitCode = -1
    /\ sigAt = "none"
    /\ pidFile = TRUE
    /\ slept = K_startup_grace
    /\ idleLeft = MaxIdle
    /\ callsLeft = 0
    /\ streak = 0
    /\ restartLog = <<>>
    /\ rbCooled = FALSE
    /\ rbLen0 = 0
    /\ rbLaunched0 = 0
    /\ rbOld = 0
    /\ rbAppended = FALSE
    /\ appended = 0
    /\ mgr = "idle"
    /\ failStreak = 0
    /\ termLog = <<>>
    /\ waited = 0
    /\ lastStop = "none"
    /\ calm = TRUE

LogInit ==
    /\ KeeperMonitoring
    /\ line \in Lines
    /\ tail \in Tails
    /\ lineRecent = "unset"
    /\ scan = "unset"

IsRecentLogLine ==
    /\ lineRecent = "unset"
    /\ lineRecent' = IF is_recent_log_line(line) THEN "yes" ELSE "no"
    /\ UNCHANGED <<kind, prereq, mgr, failStreak, termGhost, appended, mpc, ctx, ret, running, procVars, histVars,
                   consecutive_failures, healthVars, log, sigVars, sigAt, pidFile, slept,
                   idleLeft, callsLeft, streak, rbGhost, calm, line, tail, scan>>

CheckBotHealth ==
    /\ mpc = "loop"
    /\ scan = "unset"
    /\ scan' = IF check_bot_health_text(line, tail) THEN "healthy" ELSE "unhealthy"
    /\ UNCHANGED <<kind, prereq, mgr, failStreak, termGhost, appended, mpc, ctx, ret, running, procVars, histVars,
                   consecutive_failures, healthVars, log, sigVars, sigAt, pidFile, slept,
                   idleLeft, callsLeft, streak, rbGhost, calm, line, tail, lineRecent>>

LogNext == IsRecentLogLine \/ CheckBotHealth

LogSpec == LogInit /\ [][LogNext]_vars

\* ==== properties ====

\* the supervisor is monitoring, no signal has arrived
Monitoring == exitCode = -1 /\ sig = "none" /\ mpc \in {"loop", "loop_sleep"}

\* the worker has exited, or is unhealthy in the eyes of this supervisor
WorkerBad ==
    \/ bot_process \notin alive
    \/ log = "stale"
    \/ (kind = "K" /\ log = "error")

\* C2: whenever the worker has exited or is unhealthy while the supervisor is
\* monitoring, then, unless the worker recovers, a signal stops the supervisor
\* or the bound on restart_bot calls is used up, a new worker is launched.
C2_EventuallyRelaunched ==
    \A n \in 1..(MaxLive + 1) :
        (Monitoring /\ WorkerBad /\ launched = n)
            ~> \/ launched > n
               \/ ~WorkerBad
               \/ sig # "none"
               \/ (callsLeft = 0 /\ mpc \in {"loop", "loop_sleep"})

\* a worker that had exited on its own has been replaced
C2_Witness == ctx = "restart" /\ mpc = "sb_assign" /\ lastStop = "gone"

\* C1: at most one worker launched by the supervisor is alive, and when
\* restart_bot has finished stopping the previous worker (handle cleared,
\* restart cooldown, start_bot up to the launch) no worker is alive any more,
\* whether the worker exited within the SIGTERM wait or was sent SIGKILL.
C1_OneWorker ==
    /\ Cardinality(alive) <= 1
    /\ (InRestartBot /\ mpc \in {"rb_clear", "rb_cooldown", "sb_kill", "sb_popen"})
          => alive = {}

\* a replacement worker has been forked after the SIGKILL path
C1_Witness == ctx = "restart" /\ mpc = "sb_assign" /\ lastStop = "killed"

\* C3: when the supervisor has exited through shutdown() (exit code 0), no
\* worker it launched is left in the process table.
C3_ShutdownLeavesNoWorker == (mpc = "exited" /\ exitCode = 0) => alive = {}

\* C4: the restarts performed within the trailing hour never exceed
\* max_restarts_per_hour (restartLog holds the relaunches younger than one hour).
C4_WindowedRestarts == Len(restartLog) <= max_restarts_per_hour(kind)

C6_RestartNeedsStreak ==
    [][(mpc' = "rb_entry" /\ mpc # "rb_entry")
          => streak' >= (IF kind = "W" THEN 3 ELSE 2)]_vars

\* restart_bot has just been called on a streak of exactly the threshold
C6_Witness ==
    /\ mpc = "rb_entry"
    /\ streak = (IF kind = "W" THEN 3 ELSE 2)
    /\ bot_process \in alive

\* C7 (K): a restart_bot call that found an empty history and returned True
\* has stopped the old worker, launched exactly one new worker and left one
\* timestamp in the history; run() then sets the counter to 0, and a passing
\* health check keeps it at 0 and triggers no restart.
C7_state ==
    (kind = "K" /\ mpc = "rb_ret" /\ ret /\ rbLen0 = 0)
       => /\ Len(restart_history) = 1
          /\ launched = rbLaunched0 + 1
          /\ rbOld \notin alive
          /\ alive \subseteq {bot_process}
          /\ bot_process = launched

C7_step ==
    /\ (kind = "K" /\ mpc = "rb_ret" /\ ret /\ mpc' = "loop_sleep")
          => consecutive_failures' = 0
    /\ (kind = "K" /\ mpc = "loop" /\ running /\ check_bot_health
        /\ mpc' \notin {"loop", "sd_flag"})
          => (mpc' = "loop_sleep" /\ consecutive_failures' = 0
              /\ restart_history' = restart_history /\ alive' = alive)
    /\ (kind = "K" /\ mpc = "loop" /\ mpc' = "rb_entry")
          => consecutive_failures' >= 2

C7_OneRestart == []C7_state /\ [][C7_step]_vars

\* K has restarted a live worker with a stale log, from an empty history
C7_Witness ==
    /\ kind = "K" /\ mpc = "rb_ret" /\ ret /\ rbLen0 = 0
    /\ bot_process \in alive
    /\ launched = 2

\* C8: while the initial launch has succeeded and the worker has stayed alive
\* with a fresh, error-free log, restart_history is empty and restart_bot is
\* not running.
C8_CalmNoRestart ==
    (calm /\ sig = "none")
       => /\ restart_history = <<>>
          /\ ~InRestartBot
          /\ mpc \notin {"rb_ret", "backoff"}
          /\ launched = 1

\* C9 (K): a rate-limited call sleeps 600 s, then empties the history, then
\* records and performs the restart: the history is empty after the cooldown
\* and holds one timestamp from the append until the call returns.
C9_KeeperCooldown ==
    kind = "K" =>
       /\ mpc = "rb_cool" => Len(restart_history) >= 10
       /\ mpc = "rb_reset" => (rbCooled /\ slept = 600)
       /\ mpc \in {"rb_cool", "rb_reset"}
             => (bot_process = rbOld /\ launched = rbLaunched0)
       /\ (mpc = "rb_append" /\ rbCooled) => Len(restart_history) = 0
       /\ (rbCooled /\ (mpc = "rb_ret" \/ (InRestartBot /\ mpc \notin {"rb_reset", "rb_append"})))
             => Len(restart_history) = 1
       /\ (rbCooled /\ mpc = "rb_ret" /\ ret) => launched = rbLaunched0 + 1

\* K returns from a restart that was deferred by the cooldown
C9_Witness == kind = "K" /\ mpc = "rb_ret" /\ rbCooled /\ ret

\* C10 (W): after the 300 s cooldown the history is cleared and the restart
\* proceeds (worker stopped and relaunched).
C10_WatchdogCooldown ==
    (kind = "W" /\ mpc = "rb_ret" /\ rbCooled)
       => /\ slept = 300
          /\ Len(restart_history) <= 1
          /\ launched = rbLaunched0 + 1

\* C11 (K): a signal that arrives while the keeper is monitoring is handled in
\* this order: running is cleared before the worker is signalled; the worker
\* is sent SIGTERM and, when the 15 s wait times out, SIGKILL; the pid file is
\* removed only after the worker has been dealt with; the keeper then exits
\* with code 0, the worker gone.  From the moment the handler has started no
\* health check is made and no restart is begun.
C11_state ==
    (kind = "K" /\ sigAt = "monitoring") =>
       /\ mpc \in {"sd_flag", "sd_term", "sd_wait", "sd_kill", "sd_end", "exited"}
       /\ mpc \in {"sd_term", "sd_wait", "sd_kill", "sd_end", "exited"} => ~running
       /\ mpc = "sd_kill" => slept = 15
       /\ mpc = "sd_end" => bot_process \notin alive
       /\ (sdCtx = "handler" /\ mpc \in {"sd_flag", "sd_term", "sd_wait", "sd_kill", "sd_end"})
             => pidFile
       /\ mpc = "exited" => (exitCode = 0 /\ ~pidFile /\ alive = {})

C11_step ==
    (kind = "K" /\ sigAt = "monitoring") =>
       /\ consecutive_failures' = consecutive_failures
       /\ streak' = streak
       /\ restart_history' = restart_history
       /\ launched' = launched
       /\ callsLeft' = callsLeft

C12_Rest(l) == SubSeq(Strip(l), 2, Len(Strip(l)))
C12_TimestampLeads(l) ==
    /\ Strip(l) # <<>>
    /\ Strip(l)[1] \in {"ts119", "ts120", "ts121"}
    /\ \/ C12_Rest(l) = <<>>
       \/ C12_Rest(l)[1] \in {",", "["}
       \/ \E k \in 1..Len(C12_Rest(l)) :
             /\ \A j \in 1..k : C12_Rest(l)[j] = " "
             /\ (k = Len(C12_Rest(l)) \/ C12_Rest(l)[k + 1] = "[")
C12_RecentLine ==
    lineRecent # "unset" =>
       /\ lineRecent = "yes" <=> (C12_TimestampLeads(line) /\ Strip(line)[1] = "ts119")
       /\ (C12_TimestampLeads(line) /\ Strip(line)[1] \in {"ts120", "ts121"})
             => lineRecent = "no"
       /\ ~C12_TimestampLeads(line) => lineRecent = "no"

\* the function has answered for an error line stamped exactly two minutes ago
C12_Witness ==
    /\ lineRecent = "no"
    /\ line = <<"ts120", ",", "dispatch_failed">>

\* C13 (K): for a live worker with a fresh log, check_bot_health answers
\* unhealthy whenever some line of the tail holds an error substring and a
\* timestamp younger than two minutes, wherever the line sits in the tail;
\* and it answers unhealthy only then.
C13_ErrorLine(l) ==
    /\ \E i \in 1..Len(l) : l[i] = "dispatch_failed"
    /\ C12_TimestampLeads(l)
    /\ Strip(l)[1] = "ts119"
C13_TailScan ==
    scan # "unset" => (scan = "unhealthy" <=> C13_ErrorLine(line))

\* C13, within the window the code reads: the same, for a line among the last
\* 20 elements of split('\n')
C13_InWindow ==
    (scan # "unset" /\ tail.pos > tail.n + (IF tail.nl THEN 1 ELSE 0) - 20)
        => (scan = "unhealthy" <=> C13_ErrorLine(line))

\* C14: while the log file does not exist, a health check of a live worker
\* passes in both supervisors: the verdict step of the watchdog's thread goes
\* to the reset branch and BotKeeper's loop iteration sets its counter to 0
\* and calls no restart.
C14_live == bot_process # 0 /\ bot_process \in alive /\ log = "missing"
C14_MissingLogPasses ==
    [][C14_live =>
         /\ (hpc = "h_check" /\ hpc' \in {"h_inc", "h_loop"})
               => (hpc' = "h_loop" /\ consecutive_failures' = 0 /\ streak' = 0)
         /\ (kind = "K" /\ mpc = "loop" /\ running /\ mpc' \notin {"loop", "sd_flag"})
               => (mpc' = "loop_sleep" /\ consecutive_failures' = 0 /\ streak' = 0)]_vars

\* BotKeeper's first check has passed for a live worker without a log file
C14_Witness ==
    /\ kind = "K" /\ mpc = "loop_sleep"
    /\ bot_process \in alive /\ log = "missing"
    /\ launched = 1 /\ callsLeft = MaxRestarts
    /\ consecutive_failures = 0

\* C15 (W): a health-check cycle gives a negative verdict (and goes on to
\* increment consecutive_failures) when the worker is not alive, or the log
\* is stale, or the log holds a recent error line; it resets the counter only
\* when none of the three holds.
C15_WatchdogVerdict ==
    [][(kind = "W" /\ hpc = "h_check" /\ hpc' \in {"h_inc", "h_loop"}) =>
         IF bot_process = 0 \/ bot_process \notin alive \/ log \in {"stale", "error"}
         THEN hpc' = "h_inc"
         ELSE hpc' = "h_loop" /\ consecutive_failures' = 0]_vars

\* C15 without the error line: not alive or stale log gives the negative
\* verdict, anything else the reset
C15_WithoutErrorLine ==
    [][(kind = "W" /\ hpc = "h_check" /\ hpc' \in {"h_inc", "h_loop"}) =>
         IF bot_process = 0 \/ bot_process \notin alive \/ log = "stale"
         THEN hpc' = "h_inc"
         ELSE hpc' = "h_loop" /\ consecutive_failures' = 0]_vars

\* C16: a restart_bot call that returns False after a launch attempt (Popen
\* raised, or the new worker was dead after the startup grace) does not end
\* the supervisor: run() goes to the backoff sleep with running still True
\* and no exit code, and from there, the worker being still dead, the loop
\* calls restart_bot again (as long as no signal arrives and the model's
\* bound on calls is not used up).  A launch that succeeds sets the failure
\* counter to 0: start_bot writes it in the watchdog, run() when restart_bot
\* has returned True in BotKeeper, which is then monitoring again.
C16_step ==
    /\ (mpc = "rb_ret" /\ ~ret /\ mpc' # "rb_ret" /\ sig' = "none")
          => (mpc' = "backoff" /\ running' /\ exitCode' = -1)
    /\ (mpc = "backoff" /\ mpc' # "backoff" /\ sig' = "none")
          => (mpc' = "loop_sleep" /\ running' /\ exitCode' = -1)
    /\ (kind = "W" /\ ctx = "restart" /\ mpc = "sb_poll" /\ mpc' = "rb_ret" /\ ret')
          => consecutive_failures' = 0
    /\ (kind = "K" /\ mpc = "rb_ret" /\ ret /\ sig' = "none" /\ mpc' # "rb_ret")
          => (mpc' = "loop_sleep" /\ consecutive_failures' = 0)

C16_retry ==
    (mpc = "backoff" /\ sig = "none" /\ callsLeft > 0)
        ~> (mpc = "rb_entry" \/ sig # "none")

C17_min(a, b) == IF a <= b THEN a ELSE b
C17_expected(k, n) ==
    IF k = "W" THEN C17_min(300, 30 * 2 ^ C17_min(n - 3, 5))
    ELSE C17_min(600, 60 * 2 ^ C17_min(n - 2, 4))
C17_table ==
    /\ \A n \in 3..12 :
          /\ Backoff("W", n) = C17_expected("W", n)
          /\ Backoff("W", n) >= 30 /\ Backoff("W", n) <= 300
          /\ Backoff("W", n) <= Backoff("W", n + 1)
    /\ \A n \in 2..12 :
          /\ Backoff("K", n) = C17_expected("K", n)
          /\ Backoff("K", n) >= 60 /\ Backoff("K", n) <= 600
          /\ Backoff("K", n) <= Backoff("K", n + 1)
C17_step ==
    (mpc = "backoff" /\ mpc' = "loop_sleep"
     /\ consecutive_failures >= (IF kind = "W" THEN 3 ELSE 2))
        => slept' = C17_expected(kind, consecutive_failures)
C17_BackoffValue == []C17_table /\ [][C17_step]_vars

\* the watchdog has slept the clamped backoff (480 s cut to 300 s)
C17_Witness ==
    /\ kind = "W" /\ mpc = "loop_sleep" /\ slept = 300 /\ consecutive_failures >= 7

\* C18: run() enters the backoff sleep only when restart_bot has returned
\* False out of start_bot, that is after a launch attempt that failed; not
\* after a rate-limit deferral (no launch attempted) and not after a restart
\* whose relaunch succeeded.
C18_BackoffOnlyAfterFailedLaunch ==
    [][(mpc # "backoff" /\ mpc' = "backoff") => (~ret /\ ctx = "restart")]_vars

\* C18 for BotKeeper alone
C18_Keeper ==
    [][(kind = "K" /\ mpc # "backoff" /\ mpc' = "backoff")
          => (~ret /\ ctx = "restart")]_vars

\* C19 (W): consecutive_failures is written by the health-check thread only:
\* every step that changes it is a step of health_check_loop.
C19_OnlyHealthThreadWrites ==
    [][(kind = "W" /\ consecutive_failures' # consecutive_failures)
          => (hpc # hpc' /\ mpc' = mpc)]_vars

\* C19 but for start_bot's reset: no other step of the main thread writes it
C19_ButStartBot ==
    [][(kind = "W" /\ consecutive_failures' # consecutive_failures /\ mpc # "sb_poll")
          => (hpc # hpc' /\ mpc' = mpc)]_vars

\* C20 (W): the thread's increment is never computed from a value read before
\* a reset: the write of "+= 1" stores the current value of the counter plus
\* one, so that the counter is the number of failing checks completed since
\* the most recent reset.
C20_NoLostUpdate ==
    [][(kind = "W" /\ hpc = "h_store" /\ hpc' = "h_loop")
          => consecutive_failures' = Bump(kind, consecutive_failures)]_vars

\* C21: while restart_bot is in progress (terminating the worker, sleeping a
\* cooldown, waiting out the startup grace), health checks keep being
\* executed: the thread that executes them is its own thread (W), or is at
\* the health check of the loop (K), and is not held inside restart_bot.
C21_ChecksRun ==
    IF kind = "W" THEN hpc \in {"h_loop", "h_check", "h_inc", "h_store"}
    ELSE mpc = "loop"
C21_HealthChecksNeverBlock ==
    (InRestartBot /\ sig = "none" /\ exitCode = -1) => C21_ChecksRun

\* C21 for the watchdog alone
C21_Watchdog ==
    (kind = "W" /\ InRestartBot /\ sig = "none" /\ exitCode = -1) => C21_ChecksRun

\* C22 (W): shutdown() clears running before the worker is signalled, and once
\* the termination sequence has begun the health thread does not record the
\* worker that shutdown() stops (until then started fine, alive, log fresh)
\* as a failure, and no restart or launch happens.
C22_state ==
    (kind = "W" /\ mpc \in {"sd_term", "sd_wait", "sd_kill", "sd_end"}) => ~running
C22_step ==
    (kind = "W" /\ sig # "none") =>
       /\ launched' = launched
       /\ restart_history' = restart_history
       /\ (calm /\ hpc = "h_check") => hpc' # "h_inc"
C22_ShutdownStopsChecks == []C22_state /\ [][C22_step]_vars

\* C22 without the health thread's verdict: the flag is cleared first and
\* nothing is restarted or launched
C22_FlagFirstNoRestart ==
    /\ []C22_state
    /\ [][(kind = "W" /\ sig # "none")
             => (launched' = launched /\ restart_history' = restart_history)]_vars

\* C23: run() returns 1 when the initial start_bot fails and never enters the
\* monitoring loop; BotKeeper.main returns 1 without launching a worker when a
\* prerequisite is missing; a supervisor stopped by a signal after a
\* successful start exits with code 0.
C23_state ==
    /\ (prereq # "ok" /\ kind = "K") => (launched = 0 /\ bot_process = 0 /\ ~pidFile)
    /\ (prereq # "ok" /\ kind = "K" /\ mpc = "exited" /\ sig = "none") => exitCode = 1
    /\ (mpc = "exited" /\ sigAt = "monitoring") => exitCode = 0
C23_step ==
    /\ (mpc = "init_ret" /\ ~ret /\ sig' = "none" /\ mpc' # mpc)
          => (mpc' = "exited" /\ exitCode' = 1)
    /\ (mpc = "start" /\ prereq # "ok" /\ sig' = "none" /\ mpc' # mpc)
          => (mpc' = "exited" /\ exitCode' = 1 /\ launched' = 0)
C23_ExitCodes == []C23_state /\ [][C23_step]_vars
C23_Witness ==
    /\ kind = "K" /\ prereq = "no_env" /\ mpc = "exited" /\ exitCode = 1
    /\ launched = 0 /\ sig = "none"

\* C24 (K): the pid file is written at the start of run(), before the worker
\* is launched, and however run() ends (signal, finally, or a failed initial
\* launch returning 1) the file no longer exists afterwards.
C24_PidFileRemoved ==
    /\ (kind = "K" /\ launched > 0 /\ mpc # "exited") => pidFile
    /\ (kind = "K" /\ mpc = "exited") => ~pidFile

\* C24, the paths that go through shutdown(): the file is written before the
\* first launch and a run() ended by a signal leaves none behind.
C24_RemovedByShutdown ==
    /\ (kind = "K" /\ launched > 0 /\ ~InShutdown /\ mpc # "exited") => pidFile
    /\ (kind = "K" /\ mpc = "exited" /\ sig # "none") => ~pidFile

\* C25: every launch after the initial one happens inside a restart_bot call
\* that has evaluated the restart limit and appended a timestamp, so the
\* number of launches never exceeds 1 + the number of timestamps appended.
C25_state == launched <= 1 + appended
C25_step ==
    launched' > launched =>
       \/ ctx = "init" /\ launched = 0 /\ appended = 0
       \/ /\ ctx = "restart" /\ rbAppended
          /\ ~RateLimited(kind, rbLen0) \/ (kind = "K" /\ rbCooled)
          /\ launched = rbLaunched0
C25_LaunchesAccounted == []C25_state /\ [][C25_step]_vars
C25_Witness ==
    /\ launched >= 3 /\ launched = 1 + appended
    /\ mpc = "sb_assign" /\ ctx = "restart" /\ rbAppended

\* C26: SIGKILL is delivered to the worker only after SIGTERM has been sent and
\* the wait has timed out (10 s in restart_bot and in the watchdog's shutdown,
\* 15 s in BotKeeper.shutdown); a worker that exits within the timeout is
\* never sent SIGKILL; a termination sequence escalates at most once.
C26_Sequences ==
    {<<>>, <<"TERM">>, <<"TERM", "EXITED">>, <<"TERM", "TIMEOUT">>,
     <<"TERM", "TIMEOUT", "KILL">>, <<"NOPROC", "NOPROC">>}
C26_state ==
    /\ termLog \in C26_Sequences
    /\ (waited # 0) <=> (Len(termLog) >= 2 /\ termLog[2] = "TIMEOUT")
    /\ waited \in {0, restart_wait, ShutdownWait(kind)}
C26_step ==
    /\ (Len(termLog') > Len(termLog) /\ termLog'[Len(termLog')] = "KILL")
          => /\ termLog = <<"TERM", "TIMEOUT">>
             /\ waited = IF mpc = "rb_kill" THEN restart_wait ELSE ShutdownWait(kind)
             /\ waited \in {10, 15} /\ (waited = 15 => (kind = "K" /\ mpc = "sd_kill"))
    /\ (mpc \in {"rb_wait", "sd_wait"} /\ bot_process \notin alive' /\ mpc' # mpc /\ sig' = sig)
          => mpc' \in {"rb_clear", "sd_end"}
C26_KillOnlyAfterTimeout == []C26_state /\ [][C26_step]_vars
C26_Witness ==
    /\ mpc = "rb_clear" /\ termLog = <<"TERM", "TIMEOUT", "KILL">> /\ waited = 10
    /\ bot_process \notin alive

\* C27: shutdown() may run twice (the handler's run followed by the one of
\* run()'s finally, or a second signal during shutdown): the second run raises
\* no error and leaves the worker dead, running False and, in BotKeeper, the
\* pid file absent.
C27_SecondRun == InShutdown /\ (sdCtx = "finally" \/ sig = "twice")
C27_state ==
    (sig # "none" /\ mpc = "exited") =>
       /\ exitCode = 0
       /\ ~running
       /\ bot_process \notin alive
       /\ kind = "K" => ~pidFile
C27_step ==
    (C27_SecondRun /\ sig' = sig /\ mpc' # mpc) =>
       /\ exitCode' \in {-1, 0}
       /\ mpc = "sd_end" =>
             (~running' /\ bot_process' \notin alive' /\ (kind = "K" => ~pidFile'))
       /\ mpc' = "exited" => (mpc = "sd_end" /\ exitCode' = 0)
C27_ShutdownTwice == []C27_state /\ [][C27_step]_vars
C27_Witness ==
    /\ sig = "twice" /\ sdCtx = "finally" /\ mpc = "sd_end"
    /\ termLog = <<"NOPROC", "NOPROC">> /\ bot_process # 0

\* C28: the backoff exponent is the streak of failed restart attempts: the
\* first failed restart backs off for the base (30 s W / 60 s K) and the
\* backoff doubles only with each further consecutive failed restart; in the
\* watchdog this holds although the health thread keeps running.
C28_expected(k, n) == Backoff(k, Threshold(k) + n - 1)
C28_BackoffFollowsRestartStreak ==
    [][(mpc = "backoff" /\ mpc' = "loop_sleep")
          => (failStreak >= 1 /\ slept' = C28_expected(kind, failStreak))]_vars

\* C28, BotKeeper alone: its counter is a local of run() and moves once per
\* loop iteration.
C28_Keeper ==
    [][(kind = "K" /\ mpc = "backoff" /\ mpc' = "loop_sleep")
          => (failStreak >= 1 /\ slept' = C28_expected(kind, failStreak))]_vars

\* C29: in production mode, once BulletproofBotManager.stop_all has stopped the
\* watchdog (SIGTERM, wait up to 10 s, then SIGKILL and wait), neither the
\* watchdog nor the worker it launched is alive, whether the worker exits
\* promptly on SIGTERM or not within the watchdog's own 10 s wait.
\* (checked for a stop that reaches the watchdog while it monitors its worker)
C29_NoOrphanAfterStopAll ==
    (mgr = "stopped" /\ sigAt = "monitoring") => (mpc = "exited" /\ alive = {})

\* C29, a worker that exits promptly on SIGTERM and was assigned to
\* self.bot_process when the signal arrived: the watchdog ends within the
\* manager's wait and nothing is left.
C29_PromptWorker ==
    (mgr = "stopped" /\ exitCode = 0 /\ sigAt = "monitoring") => alive = {}

\* C30 (W): the rate limit never locks the watchdog out for good: once the
\* recorded timestamps are older than one hour restart_bot stops and relaunches
\* the worker again; while restarts are refused running stays True and run()
\* does not return.
C30_state ==
    (kind = "W" /\ sig = "none" /\ (mpc = "rb_cool" \/ rbCooled))
       => (running /\ exitCode = -1 /\ mpc \in {"rb_cool", "rb_ret"})
C30_step ==
    (kind = "W" /\ sig' = "none" /\ mpc = "rb_ret" /\ rbCooled /\ mpc' # mpc)
       => (mpc' = "backoff" /\ running' /\ exitCode' = -1)
C30_live ==
    (kind = "W" /\ mpc = "rb_cool" /\ callsLeft >= HourTicks("W"))
       ~> \/ ctx = "restart" /\ mpc = "sb_assign"
          \/ sig # "none"
C30_LockoutEnds == []C30_state /\ [][C30_step]_vars /\ C30_live
C30_Witness ==
    /\ kind = "W" /\ ctx = "restart" /\ mpc = "sb_assign"
    /\ appended = W_max_restarts_per_hour + 1
    /\ callsLeft <= MaxLock - (W_max_restarts_per_hour + 2)

====
